---- MODULE Spec2Model ----
(***************************************************************************)
(* A model of bot.py, the announcement bot for ilan.gov.tr: the text       *)
(* normaliser, the relevance filter, the identity of an announcement, the  *)
(* extraction of candidates from a list page, and main()'s run over the    *)
(* pages, the candidates, the seen-store and the notifications.            *)
(*                                                                         *)
(* A string is a sequence of characters and a character is a string of     *)
(* its own.  A letter outside ASCII is named by its code point: "U+0130"   *)
(* is the dotted capital I, "U+0131" the dotless small i, "U+0307" the     *)
(* combining dot above, "U+015F" the small s with cedilla, and so on.      *)
(***************************************************************************)
EXTENDS Integers, Sequences, FiniteSets, TLC

VARIABLES
    input,      \* the argument of the function under study
    output,     \* the results it returned so far, oldest first
    fpc,        \* which function the step applied ("in" before any step)
    env,        \* the environment variables bot.py reads when it is loaded
    web_list,   \* what the site answered for each list page fetched so far
    web_detail, \* what the site answered for each detail URL fetched so far
    seen_file,  \* the file .cache/seen.json
    run,        \* the number of the run of main() under way
    clock,      \* the time now_iso() reads
    history,    \* how each earlier run ended, oldest first
    pc,         \* where main() stands
    seen,       \* main(): seen
    loaded,     \* what load_seen() returned at the start of this run
    page,       \* main(): page
    cands,      \* main(): cands, sorted
    ci,         \* the index in cands of the candidate the loop is at
    hits,       \* main(): hits
    stats,      \* main(): list_candidates_total, detail_checked, filtered, new_count, sent
    debug_lines,\* main(): debug_lines
    outbox,     \* the texts handed to tg_broadcast in this run, in order
    stdout,     \* the lines printed in this run
    saves,      \* the number of calls of save_seen in this run
    fetches     \* the number of list pages and of detail pages fetched in this run

fnVars == <<input, output, fpc>>
webVars == <<web_list, web_detail>>
runVars == <<pc, seen, loaded, page, cands, ci, hits, stats, debug_lines, outbox,
             stdout, saves, fetches>>
pipeVars == <<env, webVars, seen_file, run, clock, history, runVars>>
vars == <<fnVars, pipeVars>>

(***************************************************************************)
(* Bounds of the model.                                                    *)
(***************************************************************************)
MaxNormLen == 3
MaxWords == 3
MaxPagesBound == 2
MaxCap == 2
MaxRuns == 2

(***************************************************************************)
(* Characters.                                                             *)
(***************************************************************************)
\* Python's None, as an argument of norm_text(s: Any)
NONE == <<"<None>">>

\* the characters str.strip() strips and the regex class \s matches
WHITESPACE == {" ", "\t", "\n"}

ASCII_UPPER == <<"A", "B", "C", "D", "E", "F", "G", "H", "I", "J", "K", "L", "M", "N", "O",
                 "P", "Q", "R", "S", "T", "U", "V", "W", "X", "Y", "Z">>
ASCII_LOWER == <<"a", "b", "c", "d", "e", "f", "g", "h", "i", "j", "k", "l", "m", "n", "o",
                 "p", "q", "r", "s", "t", "u", "v", "w", "x", "y", "z">>
DIGITS == {"0", "1", "2", "3", "4", "5", "6", "7", "8", "9"}

IndexOf(c, s) == CHOOSE i \in 1..Len(s) : s[i] = c

\* str.lower() of one character: the Unicode lower-case mapping.  The dotted
\* capital I (U+0130) lower-cases to two characters, "i" and the combining
\* dot above (U+0307).
LowerChar(c) ==
    CASE c \in {ASCII_UPPER[i] : i \in 1..Len(ASCII_UPPER)} ->
            <<ASCII_LOWER[IndexOf(c, ASCII_UPPER)]>>
      [] c = "U+0130" -> <<"i", "U+0307">>
      [] c = "U+015E" -> <<"U+015F">>
      [] c = "U+011E" -> <<"U+011F">>
      [] c = "U+00DC" -> <<"U+00FC">>
      [] c = "U+00D6" -> <<"U+00F6">>
      [] c = "U+00C7" -> <<"U+00E7">>
      [] OTHER -> <<c>>

\* str.upper() of one character
UpperChar(c) ==
    CASE c \in {ASCII_LOWER[i] : i \in 1..Len(ASCII_LOWER)} ->
            <<ASCII_UPPER[IndexOf(c, ASCII_LOWER)]>>
      [] c = "U+0131" -> <<"I">>
      [] c = "U+015F" -> <<"U+015E">>
      [] c = "U+011F" -> <<"U+011E">>
      [] c = "U+00FC" -> <<"U+00DC">>
      [] c = "U+00F6" -> <<"U+00D6">>
      [] c = "U+00E7" -> <<"U+00C7">>
      [] OTHER -> <<c>>

\* Recursion over a string halves it, so that its depth stays small.
RECURSIVE lower_range(_, _, _)
lower_range(s, lo, hi) ==
    IF lo > hi THEN <<>>
    ELSE IF lo = hi THEN LowerChar(s[lo])
    ELSE lower_range(s, lo, (lo + hi) \div 2) \o lower_range(s, (lo + hi) \div 2 + 1, hi)

str_lower(s) == lower_range(s, 1, Len(s))

RECURSIVE upper_range(_, _, _)
upper_range(s, lo, hi) ==
    IF lo > hi THEN <<>>
    ELSE IF lo = hi THEN UpperChar(s[lo])
    ELSE upper_range(s, lo, (lo + hi) \div 2) \o upper_range(s, (lo + hi) \div 2 + 1, hi)

str_upper(s) == upper_range(s, 1, Len(s))

Min(S) == CHOOSE x \in S : \A y \in S : x <= y
Max(S) == CHOOSE x \in S : \A y \in S : x >= y

str_lstrip(s) ==
    SubSeq(s, Min({i \in 1..Len(s) : s[i] \notin WHITESPACE} \cup {Len(s) + 1}), Len(s))

str_rstrip(s) ==
    SubSeq(s, 1, Max({i \in 1..Len(s) : s[i] \notin WHITESPACE} \cup {0}))

str_strip(s) == str_rstrip(str_lstrip(s))

\* s.replace(a, b) for one-character a and b
str_replace(s, a, b) == [i \in 1..Len(s) |-> IF s[i] = a THEN b ELSE s[i]]

\* the elements of s at the indices in keep, in order
RECURSIVE pick_range(_, _, _, _)
pick_range(s, keep, lo, hi) ==
    IF lo > hi THEN <<>>
    ELSE IF lo = hi THEN (IF lo \in keep THEN <<s[lo]>> ELSE <<>>)
    ELSE pick_range(s, keep, lo, (lo + hi) \div 2)
         \o pick_range(s, keep, (lo + hi) \div 2 + 1, hi)

Pick(s, keep) == pick_range(s, keep, 1, Len(s))

Where(s, Test(_)) == Pick(s, {i \in 1..Len(s) : Test(s[i])})

\* re.sub(r"\s+", " ", s): of a run of white space one space is kept
collapse_ws(s) ==
    Pick([i \in 1..Len(s) |-> IF s[i] \in WHITESPACE THEN " " ELSE s[i]],
         {i \in 1..Len(s) : s[i] \notin WHITESPACE \/ i = 1 \/ s[i - 1] \notin WHITESPACE})

\* needle in text
str_in(needle, text) ==
    \E i \in 1..(Len(text) - Len(needle) + 1) :
        SubSeq(text, i, i + Len(needle) - 1) = needle

str_startswith(s, prefix) ==
    Len(prefix) <= Len(s) /\ SubSeq(s, 1, Len(prefix)) = prefix

\* s[:n]
str_prefix(s, n) == SubSeq(s, 1, IF Len(s) < n THEN Len(s) ELSE n)

RECURSIVE join_range(_, _, _)
join_range(ss, lo, hi) ==
    IF lo > hi THEN <<>>
    ELSE IF lo = hi THEN ss[lo]
    ELSE join_range(ss, lo, (lo + hi) \div 2) \o join_range(ss, (lo + hi) \div 2 + 1, hi)

str_join(ss) == join_range(ss, 1, Len(ss))

(***************************************************************************)
(* norm_text                                                               *)
(***************************************************************************)
norm_text(s) ==
    IF s = NONE THEN <<>>
    ELSE LET lowered  == str_strip(str_lower(s))
             replaced == str_replace(str_replace(str_replace(str_replace(
                         str_replace(str_replace(lowered,
                             "U+0131", "i"), "U+011F", "g"), "U+00FC", "u"),
                             "U+015F", "s"), "U+00F6", "o"), "U+00E7", "c")
         IN  collapse_ws(replaced)

(***************************************************************************)
(* The relevance filter: the gazetteer, the keyword lists, antalya_score,  *)
(* looks_like_kiralama and main()'s two gates.                             *)
(***************************************************************************)
ANTALYA_TOKENS ==
    << <<"a", "n", "t", "a", "l", "y", "a">>,
       <<"a", "k", "s", "u">>, <<"k", "e", "p", "e", "z">>, <<"m", "u", "r", "a", "t", "p", "a", "U+015F", "a">>, <<"m", "u", "r", "a", "t", "p", "a", "s", "a">>,
       <<"k", "o", "n", "y", "a", "a", "l", "t", "U+0131">>, <<"k", "o", "n", "y", "a", "a", "l", "t", "i">>,
       <<"d", "U+00F6", "U+015F", "e", "m", "e", "a", "l", "t", "U+0131">>, <<"d", "o", "s", "e", "m", "e", "a", "l", "t", "i">>,
       <<"s", "e", "r", "i", "k">>, <<"m", "a", "n", "a", "v", "g", "a", "t">>, <<"a", "l", "a", "n", "y", "a">>, <<"k", "a", "U+015F">>, <<"k", "a", "s">>,
       <<"k", "e", "m", "e", "r">>, <<"k", "u", "m", "l", "u", "c", "a">>, <<"f", "i", "n", "i", "k", "e">>, <<"d", "e", "m", "r", "e">>,
       <<"e", "l", "m", "a", "l", "U+0131">>, <<"e", "l", "m", "a", "l", "i">>, <<"g", "a", "z", "i", "p", "a", "U+015F", "a">>, <<"g", "a", "z", "i", "p", "a", "s", "a">>,
       <<"a", "k", "s", "e", "k", "i">>, <<"i", "b", "r", "a", "d", "U+0131">>, <<"i", "b", "r", "a", "d", "i">>,
       <<"g", "U+00FC", "n", "d", "o", "U+011F", "m", "u", "U+015F">>, <<"g", "u", "n", "d", "o", "g", "m", "u", "s">> >>

POSITIVE_HINTS ==
    << <<"k", "i", "r", "a", "l", "a", "m", "a", " ", "i", "h", "a", "l", "e", "s", "i">>,
       <<"k", "i", "r", "a", " ", "i", "h", "a", "l", "e", "s", "i">>,
       <<"k", "i", "r", "a", "l", "a", "n", "a", "c", "a", "k", "t", "U+0131", "r">>, <<"k", "i", "r", "a", "l", "a", "n", "a", "c", "a", "k", "t">>,
       <<"k", "i", "r", "a", "y", "a", " ", "v", "e", "r", "i", "l", "e", "c", "e">>, <<"k", "i", "r", "a", "y", "a", " ", "v", "e", "r", "i", "l",
                              "e", "c", "e", "k">>,
       <<"k", "i", "r", "a", "y", "a", " ", "v", "e", "r", "i", "l", "m", "e", "s", "i">>,
       <<"i", "U+015F", "l", "e", "t", "m", "e", " ", "h", "a", "k", "k", "U+0131">>, <<"i", "s", "l", "e", "t", "m", "e", " ", "h", "a", "k", "k", "i">>,
       <<"k", "u", "l", "l", "a", "n", "U+0131", "m", " ", "h", "a", "k", "k", "U+0131">>, <<"k", "u", "l", "l", "a", "n", "i", "m", " ", "h", "a", "k",
                             "k", "i">>,
       <<"i", "h", "a", "l", "e">>,
       <<"k", "i", "r", "a", "l", "a", "m", "a">>,
       <<"k", "i", "r", "a">> >>

NEGATIVE_HINTS ==
    << <<"k", "o", "n", "k", "o", "r", "d", "a", "t", "o">>,
       <<"i", "f", "l", "a", "s">>,
       <<"t", "a", "s", "f", "i", "y", "e">>,
       <<"i", "c", "r", "a">>,
       <<"s", "a", "t", "U+0131", "U+015F">>, <<"s", "a", "t", "i", "s">>,
       <<"a", "r", "s", "a">>,
       <<"t", "a", "U+015F", "U+0131", "n", "m", "a", "z", " ", "s", "a", "t", "U+0131",
         "U+015F", "U+0131">>, <<"t", "a", "s", "i", "n", "m", "a", "z", " ", "s", "a", "t",
                              "i", "s", "i">>,
       <<"m", "a", "h", "k", "e", "m", "e">>,
       <<"d", "a", "v", "a">>,
       <<"k", "a", "m", "u", "l", "a", "U+015F", "t", "U+0131", "r", "m", "a">>, <<"k", "a", "m", "u", "l", "a", "s", "t", "i", "r", "m", "a">>,
       <<"h", "a", "c", "i", "z">>,
       <<"i", "p", "o", "t", "e", "k">> >>

ALLOW_KIRAYA_VERME == TRUE

ANTALYA == <<"a", "n", "t", "a", "l", "y", "a">>

SeqToSet(s) == {s[i] : i \in 1..Len(s)}

contains_any(text, needles) ==
    LET t == norm_text(text)
    IN  \E i \in 1..Len(needles) : str_in(norm_text(needles[i]), t)

antalya_score(text) ==
    LET t == norm_text(text)
        counted == {tok \in SeqToSet(ANTALYA_TOKENS) :
                       LET nt == norm_text(tok)
                       IN  nt # <<>> /\ nt # ANTALYA /\ str_in(nt, t)}
    IN  (IF str_in(ANTALYA, t) THEN 3 ELSE 0) + 2 * Cardinality(counted)

looks_like_kiralama_without_negatives(text) ==
    LET t == norm_text(text)
    IN  IF t = <<>> THEN FALSE
        ELSE IF ~ALLOW_KIRAYA_VERME /\ str_in(<<"k", "i", "r", "a", "y", "a", " ", "v",
                                                "e", "r", "m", "e">>, t) THEN FALSE
        ELSE IF ~contains_any(t, POSITIVE_HINTS) THEN FALSE
        ELSE TRUE

looks_like_kiralama(text) ==
    LET t == norm_text(text)
    IN  IF t = <<>> THEN FALSE
        ELSE IF ~ALLOW_KIRAYA_VERME /\ str_in(<<"k", "i", "r", "a", "y", "a", " ", "v",
                                                "e", "r", "m", "e">>, t) THEN FALSE
        ELSE IF ~contains_any(t, POSITIVE_HINTS) THEN FALSE
        ELSE IF contains_any(t, NEGATIVE_HINTS) THEN FALSE
        ELSE TRUE

\* main(): the Antalya filter on the blob of a detail page
geo_gate(blob) ==
    LET a_score == antalya_score(blob)
    IN  IF ~str_in(ANTALYA, norm_text(blob))
        THEN ~(a_score < 4)
        ELSE ~(a_score < 3)

\* main(): a candidate whose blob passes both gates becomes a hit
accepts(blob) == geo_gate(blob) /\ looks_like_kiralama(blob)

(***************************************************************************)
(* make_id and its two regular expressions.                                *)
(***************************************************************************)
ADV_DIGITS == 6

\* the regex class \w, over the model's characters
WORD_CHARS ==
    SeqToSet(ASCII_UPPER) \cup SeqToSet(ASCII_LOWER) \cup DIGITS \cup
    {"_", "U+0130", "U+0131", "U+015F", "U+015E", "U+011F", "U+011E",
     "U+00FC", "U+00DC", "U+00F6", "U+00D6", "U+00E7", "U+00C7"}

\* [A-Z] under re.IGNORECASE
ADV_LETTERS == SeqToSet(ASCII_UPPER) \cup SeqToSet(ASCII_LOWER) \cup {"U+0130", "U+0131"}

IsWordAt(s, i) == i >= 1 /\ i <= Len(s) /\ s[i] \in WORD_CHARS

\* \b between s[i - 1] and s[i]
WordBoundary(s, i) == IsWordAt(s, i - 1) # IsWordAt(s, i)

\* ADV_RE matches at position i of s:  \badv=([A-Z]\d{6})\b  with re.IGNORECASE
ADV_RE_at(s, i) ==
    /\ i + 4 + ADV_DIGITS <= Len(s)
    /\ WordBoundary(s, i)
    /\ s[i] \in {"a", "A"}
    /\ s[i + 1] \in {"d", "D"}
    /\ s[i + 2] \in {"v", "V"}
    /\ s[i + 3] = "="
    /\ s[i + 4] \in ADV_LETTERS
    /\ \A k \in 1..ADV_DIGITS : s[i + 4 + k] \in DIGITS
    /\ WordBoundary(s, i + 5 + ADV_DIGITS)

\* ADV_RE.search(s): the positions where it matches, and group(1) of the first
ADV_RE_matches(s) == {i \in 1..Len(s) : ADV_RE_at(s, i)}

ADV_RE_group(s) ==
    LET i == Min(ADV_RE_matches(s)) IN SubSeq(s, i + 4, i + 4 + ADV_DIGITS)

ILAN == <<"/", "i", "l", "a", "n", "/">>

\* re.search(r"/ilan/(\d+)", s)
ILAN_RE_matches(s) ==
    {i \in 1..Len(s) :
        /\ i + Len(ILAN) <= Len(s)
        /\ SubSeq(s, i, i + Len(ILAN) - 1) = ILAN
        /\ s[i + Len(ILAN)] \in DIGITS}

\* the digits of s from position i on, up to the first character that is none
DigitRun(s, i) ==
    SubSeq(s, i, Min({k \in i..Len(s) : s[k] \notin DIGITS} \cup {Len(s) + 1}) - 1)

ILAN_RE_group(s) == DigitRun(s, Min(ILAN_RE_matches(s)) + Len(ILAN))

make_id_keeping_case(url) ==
    IF ADV_RE_matches(url) # {} THEN ADV_RE_group(url)
    ELSE IF ILAN_RE_matches(url) # {} THEN ILAN_RE_group(url)
    ELSE url

make_id(url) ==
    IF ADV_RE_matches(url) # {} THEN str_upper(ADV_RE_group(url))
    ELSE IF ILAN_RE_matches(url) # {} THEN ILAN_RE_group(url)
    ELSE url

(***************************************************************************)
(* A list page and its candidates.                                         *)
(*                                                                         *)
(* The answer to an HTTP request is [kind |-> "raise"] (requests raised: a *)
(* timeout, a refused connection) or [kind |-> "response", status_code,    *)
(* html].  The HTML of a list page is held parsed as far as the regular  *)
(* expressions of bot.py read it:                                          *)
(*   text       the text of the page (detect_block_page reads its start),  *)
(*   next_data  what NEXT_DATA_RE and json.loads make of it: "absent",     *)
(*              "malformed", "list" (JSON that is no object),              *)
(*              "empty_dict", or "dict" together with build_id,            *)
(*   build_id   the value of "buildId": NONE or a string,                  *)
(*   hrefs      HREF_ILAN_RE.findall(html), in order,                      *)
(*   advs       ADV_RE.findall(html), in order.                            *)
(* The JSON of the data route is [advs, nodes]: ADV_RE.findall of its dump *)
(* and the dicts walk_json yields, each as [url, title] (NONE when no key  *)
(* gives a value).                                                         *)
(***************************************************************************)
HOST == <<"h", "t", "t", "p", "s", ":", "/", "/", "w", "w", "w", ".", "i", "l", "a", "n",
          ".", "g", "o", "v", ".", "t", "r">>
ADV_URL == <<"h", "t", "t", "p", "s", ":", "/", "/", "w", "w", "w", ".", "i", "l", "a",
             "n", ".", "g", "o", "v", ".", "t", "r", "/", "i", "l", "a", "n", "/", "k",
             "a", "t", "e", "g", "o", "r", "i", "/", "9", "/", "i", "h", "a", "l", "e",
             "-", "d", "u", "y", "u", "r", "u", "l", "a", "r", "i", "?", "a", "d", "v", "=">>
CURRENT_PAGE == <<"&", "c", "u", "r", "r", "e", "n", "t", "P", "a", "g", "e", "=">>
DEFAULT_TITLE == <<"U+0130", "l", "a", "n">>
BLOCK_PREFIX == 5000
HTTP_OK == 200

bad_markers ==
    << <<"c", "l", "o", "u", "d", "f", "l", "a", "r", "e">>,
       <<"a", "t", "t", "e", "n", "t", "i", "o", "n", " ", "r", "e", "q", "u", "i", "r",
         "e", "d">>,
       <<"a", "c", "c", "e", "s", "s", " ", "d", "e", "n", "i", "e", "d">>,
       <<"c", "a", "p", "t", "c", "h", "a">>,
       <<"b", "o", "t", " ", "d", "e", "t", "e", "c", "t", "i", "o", "n">>,
       <<"v", "e", "r", "i", "f", "y", " ", "y", "o", "u", " ", "a", "r", "e", " ", "h",
         "u", "m", "a", "n">> >>

\* html is the text of the page
detect_block_page(html) ==
    LET t == norm_text(str_prefix(html, BLOCK_PREFIX))
    IN  \E i \in 1..Len(bad_markers) : str_in(bad_markers[i], t)

\* str(n) for a page number
RECURSIVE int_str(_)
int_str(n) ==
    LET d == <<"0", "1", "2", "3", "4", "5", "6", "7", "8", "9">>
    IN  IF n < 10 THEN <<d[n + 1]>> ELSE int_str(n \div 10) \o <<d[(n % 10) + 1]>>

\* list(dict.fromkeys(s)): the first occurrence of each element, in order
Uniq(s) == Pick(s, {i \in 1..Len(s) : \A k \in 1..(i - 1) : s[k] # s[i]})

adv_candidates(advs, pg) ==
    LET codes == Uniq([i \in 1..Len(advs) |-> str_upper(advs[i])])
    IN  [i \in 1..Len(codes) |->
            [title |-> <<"U+0130", "l", "a", "n", " ", "(">> \o codes[i] \o <<")">>,
             url   |-> ADV_URL \o codes[i] \o CURRENT_PAGE \o int_str(pg)]]

\* "None" when NEXT_DATA_RE finds nothing or json.loads raises
extract_next_data(html) ==
    IF html.next_data \in {"absent", "malformed"} THEN "None" ELSE html.next_data

\* bool(nd): None and the empty dict are false
truthy(nd) == nd \in {"dict", "list"}

next_data_build_id(html) ==
    IF html.build_id # NONE /\ str_strip(html.build_id) # <<>>
    THEN str_strip(html.build_id)
    ELSE NONE

\* the dict nodes of the JSON that become candidates, in the order of the walk
RECURSIVE node_candidates(_, _)
node_candidates(nodes, seen_urls) ==
    IF nodes = <<>> THEN <<>>
    ELSE LET node  == Head(nodes)
             url_s == str_strip(node.url)
             full  == IF str_startswith(url_s, <<"/">>) THEN HOST \o url_s ELSE url_s
         IN  IF node.url = NONE \/ node.url = <<>> \/ ~str_in(ILAN, url_s)
                \/ full \in seen_urls
             THEN node_candidates(Tail(nodes), seen_urls)
             ELSE <<[title |-> IF node.title = NONE \/ node.title = <<>>
                               THEN DEFAULT_TITLE
                               ELSE str_strip(node.title),
                     url   |-> full]>>
                  \o node_candidates(Tail(nodes), seen_urls \cup {full})

pick_candidates_from_any_json(j, pg) ==
    adv_candidates(j.advs, pg) \o node_candidates(j.nodes, {})

pick_candidates_from_html(html, pg) ==
    LET urls == Uniq([i \in 1..Len(html.hrefs) |->
                        IF str_startswith(html.hrefs[i], <<"/">>)
                        THEN HOST \o html.hrefs[i]
                        ELSE html.hrefs[i]])
    IN  [i \in 1..Len(urls) |-> [title |-> DEFAULT_TITLE, url |-> urls[i]]]
        \o adv_candidates(html.advs, pg)

\* What fetch_list_page(page) returns, or that it raised.  r is the answer to
\* http_get(url) and jr the answer to http_get_json(data_url).
Returned(found, tag) == [raised |-> FALSE, cands |-> found, status |-> tag]
Raised == [raised |-> TRUE, cands |-> <<>>, status |-> "raised"]

fetch_list_page(pg, r, jr) ==
    IF r.kind = "raise" THEN Raised
    ELSE IF r.status_code # HTTP_OK THEN Returned(<<>>, "HTTP")
    ELSE IF detect_block_page(r.html.text) THEN Returned(<<>>, "BLOCKED")
    ELSE IF truthy(extract_next_data(r.html)) /\ extract_next_data(r.html) # "dict"
    THEN Raised     \* nd.get of a list: AttributeError, outside the try
    ELSE IF truthy(extract_next_data(r.html)) /\ next_data_build_id(r.html) # NONE
    THEN IF jr.kind = "raise"
         THEN Returned(<<>>, "next_data_json ERROR")
         ELSE LET found == pick_candidates_from_any_json(jr.json, pg)
              IN  IF found # <<>>
                  THEN Returned(found, "OK next_data_json")
                  ELSE Returned(<<>>, "OK next_data_json candidates=0")
    ELSE Returned(pick_candidates_from_html(r.html, pg), "OK html_fallback")

(***************************************************************************)
(* A detail page.  Its HTML is [og_title, segments]: og_title is what      *)
(* OG_TITLE_RE captures (NONE when it finds no og:title), and segments are *)
(* the page in order, each [kind, s] with kind                             *)
(*   "text"    text between tags,                                          *)
(*   "tag"     a tag, s its source,                                        *)
(*   "script"  a script element with its content (likewise "style"),       *)
(*   "title"   <title>s</title>.                                           *)
(***************************************************************************)
TITLE_MAX == 140

segment_source(seg) ==
    IF seg.kind = "title" THEN <<"<", "t", "i", "t", "l", "e", ">">> \o seg.s \o <<"<", "/", "t", "i", "t", "l", "e",
                                                         ">">> ELSE seg.s

html_source(html) ==
    str_join([i \in 1..Len(html.segments) |-> segment_source(html.segments[i])])

\* the three substitutions of html_to_text, then the collapse and the strip
html_to_text(html) ==
    LET kept(seg) == CASE seg.kind \in {"script", "style", "tag"} -> <<" ">>
                       [] seg.kind = "title" -> <<" ">> \o seg.s \o <<" ">>
                       [] OTHER -> seg.s
    IN  str_strip(collapse_ws(
            str_join([i \in 1..Len(html.segments) |-> kept(html.segments[i])])))

extract_title_from_html(html) ==
    LET titles == Where(html.segments, LAMBDA seg : seg.kind = "title")
    IN  IF html.og_title # NONE
        THEN str_prefix(str_strip(collapse_ws(html.og_title)), TITLE_MAX)
        ELSE IF titles # <<>>
        THEN str_prefix(str_strip(collapse_ws(titles[1].s)), TITLE_MAX)
        ELSE DEFAULT_TITLE

\* What fetch_detail(url) returns, or that it raised; r answers http_get(url)
fetch_detail(r) ==
    IF r.kind = "raise"
    THEN [raised |-> TRUE, text |-> <<>>, title |-> <<>>, dstatus |-> "raised"]
    ELSE IF r.status_code # HTTP_OK
    THEN [raised |-> FALSE, text |-> <<>>, title |-> DEFAULT_TITLE, dstatus |-> "DETAIL HTTP"]
    ELSE IF detect_block_page(html_source(r.html))
    THEN [raised |-> FALSE, text |-> <<>>, title |-> DEFAULT_TITLE, dstatus |-> "DETAIL BLOCKED"]
    ELSE [raised |-> FALSE, text |-> html_to_text(r.html),
          title |-> extract_title_from_html(r.html), dstatus |-> "DETAIL OK"]

format_msg(title, url) ==
    [title |-> IF title # <<>> THEN str_strip(title) ELSE DEFAULT_TITLE, url |-> url]

(***************************************************************************)
(* The seen-store.  The file is [kind, data]: kind "missing", "corrupt"    *)
(* (json.load raises), "list" (JSON that is no object) or "dict", and data *)
(* the mapping from identity to first-seen time.                           *)
(***************************************************************************)
EmptyDict == [k \in {} |-> 0]

load_seen_ignoring_file(file) == EmptyDict

load_seen(file) == IF file.kind = "dict" THEN file.data ELSE EmptyDict

save_seen(seen_dict) == [kind |-> "dict", data |-> seen_dict]

\* seen[iid] = now_iso()
mark_seen_forgotten(seen_dict, iid, now) == seen_dict

mark_seen(seen_dict, iid, now) ==
    [k \in DOMAIN seen_dict \cup {iid} |-> IF k = iid THEN now ELSE seen_dict[k]]

(***************************************************************************)
(* main(): the order of the candidates of a page, and the cap.             *)
(***************************************************************************)
rank(c) ==
    LET blob == norm_text(c.title \o <<" ">> \o c.url)
    IN  IF \/ str_in(ANTALYA, blob)
           \/ \E i \in 1..Len(ANTALYA_TOKENS) : str_in(norm_text(ANTALYA_TOKENS[i]), blob)
        THEN 1 ELSE 0

\* cands.sort(key=rank, reverse=True): stable, the candidates of rank 1 first
sort_by_rank(cs) ==
    Where(cs, LAMBDA c : rank(c) = 1) \o Where(cs, LAMBDA c : rank(c) = 0)

\* len(hits) >= MAX_SEND_PER_RUN
cap_reached_off_by_one(hit_list, cap) == Len(hit_list) > cap

cap_reached(hit_list, cap) == Len(hit_list) >= cap

\* CHAT_IDS_RAW.split(","), each part stripped, the empty ones dropped
RECURSIVE str_split(_, _)
str_split(s, sep) ==
    LET cuts == {i \in 1..Len(s) : s[i] = sep}
    IN  IF cuts = {} THEN <<s>>
        ELSE <<SubSeq(s, 1, Min(cuts) - 1)>>
             \o str_split(SubSeq(s, Min(cuts) + 1, Len(s)), sep)

chat_ids_of(raw) ==
    LET parts == str_split(raw, ",")
    IN  Where([i \in 1..Len(parts) |-> str_strip(parts[i])], LAMBDA c : c # <<>>)

(***************************************************************************)
(* The site, as the model draws it.  What a URL answers is drawn when it   *)
(* is first fetched and is the same on every later fetch.                  *)
(***************************************************************************)
RaiseResponse == [kind |-> "raise"]
StatusResponse(code) == [kind |-> "response", status_code |-> code]
HtmlResponse(html) == [kind |-> "response", status_code |-> HTTP_OK, html |-> html]
JsonResponse(j) == [kind |-> "response", json |-> j]

ListHtml(text, nd, bid, hrefs, advs) ==
    [text |-> text, next_data |-> nd, build_id |-> bid, hrefs |-> hrefs, advs |-> advs]

HREF_X == <<"/", "i", "l", "a", "n", "/", "1", "2", "3", "4", "5", "6", "/", "x">>
HREF_Y == <<"/", "i", "l", "a", "n", "/", "1", "2", "3", "4", "5", "6", "/", "y">>
TITLE_A == <<"A", "n", "t", "a", "l", "y", "a", " ", "A", "k", "s", "u", " ", "K", "i",
             "r", "a", "l", "a", "m", "a", " ", "U+0130", "h", "a", "l", "e", "s", "i">>

\* a timeout, a 503, a page of links only, a page whose data route lists the
\* announcements, and a page whose data route fails
ListTimeout == [r |-> RaiseResponse, jr |-> RaiseResponse]
ListUnavailable == [r |-> StatusResponse(503), jr |-> RaiseResponse]
ListLinks ==
    [r  |-> HtmlResponse(ListHtml(<<"<", "h", "t", "m", "l", ">">>, "absent", NONE, <<HREF_X>>, <<<<"m", "6",
                                                                              "5", "4",
                                                                              "3", "2", "1">>>>)),
     jr |-> RaiseResponse]
ListData ==
    [r  |-> HtmlResponse(ListHtml(<<"<", "h", "t", "m", "l", ">">>, "dict", <<"b", "1">>, <<>>, <<>>)),
     jr |-> JsonResponse([advs  |-> <<<<"M", "6", "5", "4", "3", "2", "1">>>>,
                          nodes |-> <<[url |-> HREF_Y, title |-> TITLE_A]>>])]
ListDataFails ==
    [r  |-> HtmlResponse(ListHtml(<<"<", "h", "t", "m", "l", ">">>, "dict", <<"b", "1">>, <<HREF_X>>, <<>>)),
     jr |-> RaiseResponse]

PipeListScenarios == {ListTimeout, ListUnavailable, ListLinks, ListData, ListDataFails}

Seg(kind, s) == [kind |-> kind, s |-> s]
DetailHtml(og, segments) == [og_title |-> og, segments |-> segments]

DetailTimeout == RaiseResponse
DetailNotFound == StatusResponse(404)
DetailScriptOnly ==
    HtmlResponse(DetailHtml(NONE, <<Seg("script", <<"<", "s", "c", "r", "i", "p", "t", ">",
                                                    "v", "a", "r", " ", "k", "i", "r", "a",
                                                    " ", "=", " ", "1", ";", "<", "/", "s",
                                                    "c", "r", "i", "p", "t", ">">>)>>))
DetailAccepted ==
    HtmlResponse(DetailHtml(NONE,
        <<Seg("title", TITLE_A), Seg("tag", <<"<", "p", ">">>), Seg("text", <<"A", "k", "s", "u",
                                                                    "'", "d", "a", " ",
                                                                    " ", "k", "i", "r",
                                                                    "a", "l", "a", "m", "a">>)>>))
DetailIcra ==
    HtmlResponse(DetailHtml(<<"A", "n", "t", "a", "l", "y", "a", " ", "i", "c", "r", "a">>,
        <<Seg("tag", <<"<", "p", ">">>), Seg("text", <<"A", "n", "t", "a", "l", "y", "a", " ", "i",
                                             "c", "r", "a", " ", "i", "h", "a", "l", "e">>)>>))
DetailOneDistrict ==
    HtmlResponse(DetailHtml(NONE,
        <<Seg("tag", <<"<", "p", ">">>), Seg("text", <<"S", "e", "r", "i", "k", " ", "k", "i", "r",
                                             "a", "l", "a", "m", "a", " ", "i", "h", "a",
                                             "l", "e", "s", "i">>)>>))

PipeDetails ==
    {DetailTimeout, DetailNotFound, DetailScriptOnly, DetailAccepted, DetailIcra,
     DetailOneDistrict}

\* fetch_list_page, the order of the candidates, make_id and fetch_detail with
\* the two gates, tabulated over what the site may answer
ListTable ==
    [p \in 0..MaxPagesBound, answer \in PipeListScenarios |->
        LET got == fetch_list_page(p, answer.r, answer.jr)
        IN  [raised |-> got.raised, status |-> got.status, cands |-> got.cands,
             sorted |-> sort_by_rank(got.cands)]]

CandidateUrls ==
    UNION { {ListTable[k].cands[i].url : i \in 1..Len(ListTable[k].cands)} :
            k \in DOMAIN ListTable }

IdTable == [url \in CandidateUrls \cup {<<>>} |-> make_id(url)]

DetailTable ==
    [answer \in PipeDetails |->
        LET got == fetch_detail(answer)
        IN  [raised |-> got.raised, text |-> got.text, title |-> got.title,
             dstatus |-> got.dstatus,
             accepted |-> got.text # <<>> /\ accepts(got.title \o <<" ">> \o got.text)]]

ListAnswers(p) == IF p \in DOMAIN web_list THEN {web_list[p]} ELSE PipeListScenarios

DetailAnswers(url) == IF url \in DOMAIN web_detail THEN {web_detail[url]} ELSE PipeDetails

(***************************************************************************)
(* main()                                                                  *)
(***************************************************************************)
\* the environments that pass the checks of main(): every cap with DEBUG off,
\* and the largest caps with DEBUG on
QuietEnvs ==
    [BOT_TOKEN : {<<"t", "0", "k", "e", "n">>}, CHAT_IDS_RAW : {<<"1", ",", " ", "2">>}, DEBUG : {FALSE},
     MAX_PAGES : 0..MaxPagesBound, MAX_SEND_PER_RUN : 0..MaxCap]

DebugEnvs ==
    [BOT_TOKEN : {<<"t", "0", "k", "e", "n">>}, CHAT_IDS_RAW : {<<"1", ",", " ", "2">>}, DEBUG : {TRUE},
     MAX_PAGES : {MaxPagesBound}, MAX_SEND_PER_RUN : {MaxCap}]

\* the environments that fail them
BadEnvs ==
    [BOT_TOKEN : {<<>>, <<"t", "0", "k", "e", "n">>}, CHAT_IDS_RAW : {<<>>, <<" ", ",", " ">>}, DEBUG : {FALSE},
     MAX_PAGES : {MaxPagesBound}, MAX_SEND_PER_RUN : {MaxCap}]

NoFile == [kind |-> "missing", data |-> EmptyDict]
OldFile == [kind |-> "dict", data |-> (<<"1", "2", "3", "4", "5", "6">> :> 0)]
BrokenFiles == {[kind |-> "corrupt", data |-> EmptyDict], [kind |-> "list", data |-> EmptyDict]}

\* the environment and the seen-store a first run may find
FirstRuns ==
    (QuietEnvs \X {NoFile, OldFile})
    \cup (DebugEnvs \X ({NoFile, OldFile} \cup BrokenFiles))
    \cup (BadEnvs \X {NoFile})

ZeroStats ==
    [list_candidates_total |-> 0, detail_checked |-> 0, filtered |-> 0,
     new_count |-> 0, sent |-> 0]

\* the state of a process that has not begun main()
Fresh ==
    /\ pc = "start"
    /\ seen = EmptyDict
    /\ loaded = EmptyDict
    /\ page = 0
    /\ cands = <<>>
    /\ ci = 1
    /\ hits = <<>>
    /\ stats = ZeroStats
    /\ debug_lines = <<>>
    /\ outbox = <<>>
    /\ stdout = <<>>
    /\ saves = 0
    /\ fetches = [list |-> 0, detail |-> 0]

FnIdle ==
    /\ input = <<>>
    /\ output = <<>>
    /\ fpc = "idle"

Init ==
    /\ FnIdle
    /\ \E first \in FirstRuns : env = first[1] /\ seen_file = first[2]
    /\ web_list = EmptyDict
    /\ web_detail = EmptyDict
    /\ run = 1
    /\ clock = 1
    /\ history = <<>>
    /\ Fresh

now_iso == clock

\* the three configuration checks; SystemExit leaves main() and the handler
\* of __main__, which catches Exception only
CheckConfig ==
    /\ pc = "start"
    /\ pc' = IF env.BOT_TOKEN = <<>> \/ env.CHAT_IDS_RAW = <<>>
                \/ chat_ids_of(env.CHAT_IDS_RAW) = <<>>
             THEN "exit_config"
             ELSE "load"
    /\ UNCHANGED <<fnVars, env, webVars, seen_file, run, clock, history>>
    /\ UNCHANGED <<seen, loaded, page, cands, ci, hits, stats, debug_lines, outbox,
                   stdout, saves, fetches>>

LoadSeen ==
    /\ pc = "load"
    /\ seen' = load_seen(seen_file)
    /\ loaded' = load_seen(seen_file)
    /\ pc' = "page"
    /\ UNCHANGED <<fnVars, env, webVars, seen_file, run, clock, history>>
    /\ UNCHANGED <<page, cands, ci, hits, stats, debug_lines, outbox, stdout, saves,
                   fetches>>

\* for page in range(MAX_PAGES): the fetch of a list page
FetchListPage ==
    /\ pc = "page"
    /\ page < env.MAX_PAGES
    /\ \E answer \in ListAnswers(page) :
         LET got == ListTable[page, answer]
         IN  /\ web_list' = (page :> answer) @@ web_list
             /\ fetches' = [fetches EXCEPT !.list = @ + 1]
             /\ IF got.raised
                THEN /\ pc' = "raised"
                     /\ UNCHANGED <<page, cands, ci, stats, debug_lines>>
                ELSE /\ debug_lines' = Append(debug_lines, got.status)
                     /\ stats' = [stats EXCEPT !.list_candidates_total = @ + Len(got.cands)]
                     /\ IF got.cands = <<>>
                        THEN /\ page' = page + 1
                             /\ pc' = "page"
                             /\ UNCHANGED <<cands, ci>>
                        ELSE /\ cands' = got.sorted
                             /\ ci' = 1
                             /\ pc' = "cand"
                             /\ UNCHANGED page
    /\ UNCHANGED <<fnVars, env, web_detail, seen_file, run, clock, history>>
    /\ UNCHANGED <<seen, loaded, hits, outbox, stdout, saves>>

\* range(MAX_PAGES) is exhausted
PagesDone ==
    /\ pc = "page"
    /\ ~(page < env.MAX_PAGES)
    /\ pc' = "save"
    /\ UNCHANGED <<fnVars, env, webVars, seen_file, run, clock, history>>
    /\ UNCHANGED <<seen, loaded, page, cands, ci, hits, stats, debug_lines, outbox,
                   stdout, saves, fetches>>

\* after the loop over cands, whether it ended or broke: the check of the cap,
\* then the next page
AfterCandidates ==
    IF cap_reached(hits, env.MAX_SEND_PER_RUN)
    THEN pc' = "save" /\ UNCHANGED page
    ELSE pc' = "page" /\ page' = page + 1

\* if len(hits) >= MAX_SEND_PER_RUN: break
CandidateCapBreak ==
    /\ pc = "cand"
    /\ ci <= Len(cands)
    /\ cap_reached(hits, env.MAX_SEND_PER_RUN)
    /\ AfterCandidates
    /\ UNCHANGED <<fnVars, env, webVars, seen_file, run, clock, history>>
    /\ UNCHANGED <<seen, loaded, cands, ci, hits, stats, debug_lines, outbox, stdout,
                   saves, fetches>>

CandidatesDone ==
    /\ pc = "cand"
    /\ ci > Len(cands)
    /\ AfterCandidates
    /\ UNCHANGED <<fnVars, env, webVars, seen_file, run, clock, history>>
    /\ UNCHANGED <<seen, loaded, cands, ci, hits, stats, debug_lines, outbox, stdout,
                   saves, fetches>>

\* a candidate with no URL, or whose identity is in seen: continue
CandidateSkipped ==
    /\ pc = "cand"
    /\ ci <= Len(cands)
    /\ ~cap_reached(hits, env.MAX_SEND_PER_RUN)
    /\ (cands[ci].url = <<>> \/ IdTable[cands[ci].url] \in DOMAIN seen)
    /\ ci' = ci + 1
    /\ UNCHANGED <<fnVars, env, webVars, seen_file, run, clock, history>>
    /\ UNCHANGED <<pc, seen, loaded, page, cands, hits, stats, debug_lines, outbox,
                   stdout, saves, fetches>>

DEBUG_DETAILS == 15

\* the detail page of a new candidate, the two gates, and the hit
CandidateFetched ==
    /\ pc = "cand"
    /\ ci <= Len(cands)
    /\ ~cap_reached(hits, env.MAX_SEND_PER_RUN)
    /\ cands[ci].url # <<>>
    /\ IdTable[cands[ci].url] \notin DOMAIN seen
    /\ \E answer \in DetailAnswers(cands[ci].url) :
         LET url  == cands[ci].url
             iid  == IdTable[url]
             got  == DetailTable[answer]
             n    == stats.detail_checked + 1
         IN  /\ web_detail' = (url :> answer) @@ web_detail
             /\ fetches' = [fetches EXCEPT !.detail = @ + 1]
             /\ IF got.raised
                THEN /\ pc' = "raised"
                     /\ UNCHANGED <<seen, ci, hits, stats, debug_lines>>
                ELSE /\ pc' = "cand"
                     /\ ci' = ci + 1
                     /\ debug_lines' =
                            IF env.DEBUG /\ n <= DEBUG_DETAILS
                            THEN Append(debug_lines, got.dstatus)
                            ELSE debug_lines
                     /\ IF got.accepted
                        THEN /\ seen' = mark_seen(seen, iid, now_iso)
                             /\ hits' = Append(hits, [title |-> got.title, url |-> url])
                             /\ stats' = [stats EXCEPT !.detail_checked = n,
                                                       !.filtered = @ + 1,
                                                       !.new_count = @ + 1]
                        ELSE /\ stats' = [stats EXCEPT !.detail_checked = n]
                             /\ UNCHANGED <<seen, hits>>
    /\ UNCHANGED <<fnVars, env, web_list, seen_file, run, clock, history>>
    /\ UNCHANGED <<loaded, page, cands, outbox, stdout, saves>>

SaveSeen ==
    /\ pc = "save"
    /\ seen_file' = save_seen(seen)
    /\ saves' = saves + 1
    /\ pc' = "send"
    /\ UNCHANGED <<fnVars, env, webVars, run, clock, history>>
    /\ UNCHANGED <<seen, loaded, page, cands, ci, hits, stats, debug_lines, outbox,
                   stdout, fetches>>

\* hits[:MAX_SEND_PER_RUN]
to_send == SubSeq(hits, 1, IF Len(hits) < env.MAX_SEND_PER_RUN
                           THEN Len(hits) ELSE env.MAX_SEND_PER_RUN)

\* tg_broadcast of one hit; tg_send swallows what requests.post raises
SendHit ==
    /\ pc = "send"
    /\ stats.sent < Len(to_send)
    /\ LET hit == to_send[stats.sent + 1]
       IN  outbox' = Append(outbox, [kind |-> "hit", to |-> chat_ids_of(env.CHAT_IDS_RAW),
                                     msg |-> format_msg(hit.title, hit.url)])
    /\ stats' = [stats EXCEPT !.sent = @ + 1]
    /\ UNCHANGED <<fnVars, env, webVars, seen_file, run, clock, history>>
    /\ UNCHANGED <<pc, seen, loaded, page, cands, ci, hits, debug_lines, stdout, saves,
                   fetches>>

DEBUG_TAIL == 16

\* the summary to the chats when DEBUG is set, and the printed statistics
EmitStats ==
    /\ pc = "send"
    /\ ~(stats.sent < Len(to_send))
    /\ outbox' = IF env.DEBUG
                 THEN Append(outbox,
                        [kind |-> "summary", to |-> chat_ids_of(env.CHAT_IDS_RAW),
                         msg |-> [stats |-> stats,
                                  tail |-> IF Len(debug_lines) > DEBUG_TAIL
                                           THEN SubSeq(debug_lines,
                                                       Len(debug_lines) - DEBUG_TAIL + 1,
                                                       Len(debug_lines))
                                           ELSE debug_lines]])
                 ELSE outbox
    /\ stdout' = Append(stdout, [kind |-> "stats", stats |-> stats])
    /\ pc' = "done"
    /\ UNCHANGED <<fnVars, env, webVars, seen_file, run, clock, history>>
    /\ UNCHANGED <<seen, loaded, page, cands, ci, hits, stats, debug_lines, saves,
                   fetches>>

\* the handler of __main__: what main() raised is printed, sent to the chats
\* and raised again
ReportError ==
    /\ pc = "raised"
    /\ stdout' = Append(stdout, [kind |-> "error"])
    /\ outbox' = Append(outbox, [kind |-> "error", to |-> chat_ids_of(env.CHAT_IDS_RAW)])
    /\ pc' = "failed"
    /\ UNCHANGED <<fnVars, env, webVars, seen_file, run, clock, history>>
    /\ UNCHANGED <<seen, loaded, page, cands, ci, hits, stats, debug_lines, saves,
                   fetches>>

Ended == pc \in {"done", "failed", "exit_config"}

\* the scheduler starts the next run, in a new process, at a later time
NextRun ==
    /\ Ended
    /\ run < MaxRuns
    /\ run' = run + 1
    /\ clock' = clock + 1
    /\ history' = Append(history, [end |-> pc, hits |-> Len(hits)])
    /\ pc' = "start"
    /\ seen' = EmptyDict
    /\ loaded' = EmptyDict
    /\ page' = 0
    /\ cands' = <<>>
    /\ ci' = 1
    /\ hits' = <<>>
    /\ stats' = ZeroStats
    /\ debug_lines' = <<>>
    /\ outbox' = <<>>
    /\ stdout' = <<>>
    /\ saves' = 0
    /\ fetches' = [list |-> 0, detail |-> 0]
    /\ UNCHANGED <<fnVars, env, webVars, seen_file>>

Next ==
    \/ CheckConfig
    \/ LoadSeen
    \/ FetchListPage
    \/ PagesDone
    \/ CandidateCapBreak
    \/ CandidatesDone
    \/ CandidateSkipped
    \/ CandidateFetched
    \/ SaveSeen
    \/ SendHit
    \/ EmitStats
    \/ ReportError
    \/ NextRun

Spec == Init /\ [][Next]_vars

\* the variables of main() while a function is studied on its own
PipeIdle ==
    /\ env = [BOT_TOKEN |-> <<>>, CHAT_IDS_RAW |-> <<>>, DEBUG |-> FALSE,
              MAX_PAGES |-> 0, MAX_SEND_PER_RUN |-> 0]
    /\ web_list = EmptyDict
    /\ web_detail = EmptyDict
    /\ seen_file = NoFile
    /\ run = 0
    /\ clock = 0
    /\ history = <<>>
    /\ Fresh

(***************************************************************************)
(* Properties of main().                                                   *)
(***************************************************************************)
\* the run before this one reached save_seen and the statistics
AfterSavedRun == run >= 2 /\ history[run - 1].end = "done"

NothingNew == hits = <<>> /\ stats.new_count = 0 /\ stats.sent = 0

\* C1, as stated: a run that follows a run which saved the seen-store, the
\* site answering as before, queues no hit, whatever the send cap and the
\* page cap.
C1_SecondRunQueuesNothing == AfterSavedRun => NothingNew

\* C1, amended: a run that follows a run which saved the seen-store and queued
\* fewer hits than MAX_SEND_PER_RUN, the site answering as before, queues no
\* hit: new = 0 and sent = 0.
C1_SecondRunAfterUncappedRun ==
    (AfterSavedRun /\ history[run - 1].hits < env.MAX_SEND_PER_RUN) => NothingNew

\* a second run has ended with nothing new after a first run that queued a hit
\* below the cap
C1_Witness ==
    /\ AfterSavedRun
    /\ history[run - 1].hits >= 1
    /\ history[run - 1].hits < env.MAX_SEND_PER_RUN
    /\ pc = "done"
    /\ fetches.list >= 1
    /\ NothingNew

StatsEmitted == \E i \in 1..Len(stdout) : stdout[i].kind = "stats"

\* C2: a run that passed the configuration checks and met a failing list-page
\* or detail fetch (a timeout, a lost connection, a status other than 200)
\* is not aborted: it ends with the seen-store saved and the statistics
\* emitted.
C2_TransportErrorNeverAborts ==
    /\ pc # "raised"
    /\ pc \in {"done", "failed"} => (saves = 1 /\ StatsEmitted)

HitsSent == Len(Where(outbox, LAMBDA m : m.kind = "hit"))

\* C3: in every run that passes the configuration checks save_seen is called
\* exactly once, after the last decision on a candidate and before the first
\* notification; the statistics are emitted only after every notification of
\* the run has been attempted.
C3_TerminationOrder ==
    /\ saves <= 1
    /\ pc \in {"load", "page", "cand", "save"} => (saves = 0 /\ HitsSent = 0)
    /\ pc \in {"send", "done", "failed"} => saves = 1
    /\ HitsSent >= 1 => saves = 1
    /\ StatsEmitted => (pc = "done" /\ HitsSent = Len(hits) /\ stats.sent = Len(hits))

CapKept ==
    /\ Len(hits) <= env.MAX_SEND_PER_RUN
    /\ stats.sent <= env.MAX_SEND_PER_RUN

HitIds == {IdTable[hits[i].url] : i \in 1..Len(hits)}

\* C10: in a run that has loaded the seen-store, the store in memory is the
\* loaded one plus exactly the identities of the queued hits: no loaded entry
\* is removed or changed, nothing but a hit is marked, and the hits have
\* pairwise distinct identities, none of them loaded; what save_seen writes is
\* that store, and when the run ends every queued hit has been sent.
C10_SeenStoreFrame ==
    /\ pc \in {"page", "cand", "save", "send", "done"} =>
         /\ DOMAIN seen = DOMAIN loaded \cup HitIds
         /\ \A k \in DOMAIN loaded : seen[k] = loaded[k]
         /\ HitIds \cap DOMAIN loaded = {}
         /\ Cardinality(HitIds) = Len(hits)
         /\ \A i \in 1..Len(hits) : seen[IdTable[hits[i].url]] = now_iso
    /\ pc \in {"send", "done"} => seen_file = save_seen(seen)
    /\ pc = "done" =>
         LET sent == Where(outbox, LAMBDA m : m.kind = "hit")
         IN  /\ Len(sent) = Len(hits)
             /\ \A i \in 1..Len(hits) :
                    sent[i].msg = format_msg(hits[i].title, hits[i].url)

\* a run that found an entry in the store, skipped or rejected candidates and
\* queued a hit has saved and sent
C10_Witness ==
    /\ pc = "done"
    /\ DOMAIN loaded # {}
    /\ Len(hits) = 1
    /\ stats.detail_checked >= 2
    /\ Cardinality(DOMAIN seen) = 2
    /\ HitsSent = 1

(***************************************************************************)
(* The normaliser on its own: an input is drawn, norm_text is applied to   *)
(* it, and then to its own result.                                         *)
(***************************************************************************)
NormAlphabet == {"U+0130", "I", "i", "U+0131", "U+015E", "U+015F", "H", "a", " ", "\t"}

RECURSIVE StringsUpTo(_, _)
StringsUpTo(alphabet, n) ==
    IF n = 0 THEN {<<>>}
    ELSE LET shorter == StringsUpTo(alphabet, n - 1)
         IN  shorter \cup {Append(s, c) : s \in shorter, c \in alphabet}

NormExamples == {<<"U+0130", "H", "A", "L", "E">>, <<"i", "h", "a", "l", "e">>, <<"I", "H", "A", "L", "E">>, <<"U+0131", "h", "a", "l", "e">>, NONE}

NormInputs == StringsUpTo(NormAlphabet, MaxNormLen) \cup NormExamples

InitNorm ==
    /\ PipeIdle
    /\ input \in NormInputs
    /\ output = <<>>
    /\ fpc = "in"

ApplyNorm ==
    /\ fpc = "in"
    /\ output' = <<norm_text(input)>>
    /\ fpc' = "norm_text"
    /\ UNCHANGED <<input, pipeVars>>

ApplyNormAgain ==
    /\ fpc = "norm_text"
    /\ Len(output) = 1
    /\ output' = Append(output, norm_text(output[1]))
    /\ UNCHANGED <<input, fpc, pipeVars>>

NextNorm == ApplyNorm \/ ApplyNormAgain

SpecNorm == InitNorm /\ [][NextNorm]_vars

(***************************************************************************)
(* The relevance filter on its own: a blob of up to MaxWords words is      *)
(* drawn and one of antalya_score, the Antalya filter of main(),           *)
(* looks_like_kiralama and the two gates together is applied to it.        *)
(***************************************************************************)
FilterWords ==
    { <<"A", "n", "t", "a", "l", "y", "a">>, <<"S", "e", "r", "i", "k">>, <<"M", "A", "N", "A", "V", "G", "A", "T">>, <<"M", "u", "r", "a", "t", "p", "a", "U+015F",
                                              "a">>, <<"k", "i", "r", "a", "l", "a",
                                                             "m", "a">>, <<"i", "h", "a",
                                                                           "l", "e">>,
      <<"i", "c", "r", "a">>, <<"S", "a", "t", "U+0131", "U+015F">>, <<"d", "u", "y", "u", "r", "u">> }

RECURSIVE BlobsUpTo(_)
BlobsUpTo(n) ==
    IF n = 0 THEN {<<>>}
    ELSE LET shorter == BlobsUpTo(n - 1)
         IN  shorter \cup {IF b = <<>> THEN w ELSE b \o <<" ">> \o w :
                              b \in shorter, w \in FilterWords}

InitFilter ==
    /\ PipeIdle
    /\ input \in BlobsUpTo(MaxWords)
    /\ output = <<>>
    /\ fpc = "in"

ApplyScore ==
    /\ fpc = "in"
    /\ output' = <<antalya_score(input)>>
    /\ fpc' = "antalya_score"
    /\ UNCHANGED <<input, pipeVars>>

ApplyGeoGate ==
    /\ fpc = "in"
    /\ output' = <<geo_gate(input)>>
    /\ fpc' = "geo_gate"
    /\ UNCHANGED <<input, pipeVars>>

ApplyKiralama ==
    /\ fpc = "in"
    /\ output' = <<looks_like_kiralama(input)>>
    /\ fpc' = "looks_like_kiralama"
    /\ UNCHANGED <<input, pipeVars>>

ApplyAccepts ==
    /\ fpc = "in"
    /\ output' = <<accepts(input)>>
    /\ fpc' = "accepts"
    /\ UNCHANGED <<input, pipeVars>>

NextFilter == ApplyScore \/ ApplyGeoGate \/ ApplyKiralama \/ ApplyAccepts

SpecFilter == InitFilter /\ [][NextFilter]_vars

(***************************************************************************)
(* make_id on its own.  A URL is drawn as a path, a query and a tail,      *)
(* together with what a reader takes from it: the advertisement code in    *)
(* capitals (adv, empty when the URL has none) and the number after /ilan/ *)
(* (digits, empty when the path has none).                                 *)
(***************************************************************************)
IdPaths ==
    { [s |-> <<"/", "i", "l", "a", "n", "/", "k", "a", "t", "e", "g", "o", "r", "i", "/",
               "9", "/", "i", "h", "a", "l", "e", "-", "d", "u", "y", "u", "r", "u", "l",
               "a", "r", "i">>, digits |-> <<>>],
      [s |-> <<"/", "i", "l", "a", "n", "/", "1", "2", "3", "4", "5", "6", "/", "x">>, digits |-> <<"1", "2", "3", "4", "5", "6">>],
      [s |-> <<"/", "i", "l", "a", "n", "/", "4", "2">>, digits |-> <<"4", "2">>],
      [s |-> <<"/", "d", "u", "y", "u", "r", "u", "/", "7">>, digits |-> <<>>] }

IdCodes ==
    { [s |-> <<"M", "1", "2", "3", "4", "5", "6">>, upper |-> <<"M", "1", "2", "3", "4", "5", "6">>],
      [s |-> <<"m", "1", "2", "3", "4", "5", "6">>, upper |-> <<"M", "1", "2", "3", "4", "5", "6">>],
      [s |-> <<"z", "0", "0", "0", "0", "0", "1">>, upper |-> <<"Z", "0", "0", "0", "0", "0", "1">>] }

\* a query with the code, in either case of the name; one after another
\* parameter; and two that hold no code: the name runs on from a word, and a
\* seventh digit follows
IdQueries ==
    {[s |-> <<>>, adv |-> <<>>]}
    \cup {[s |-> <<"?", "a", "d", "v", "=">> \o c.s, adv |-> c.upper] : c \in IdCodes}
    \cup {[s |-> <<"?", "A", "D", "V", "=">> \o c.s, adv |-> c.upper] : c \in IdCodes}
    \cup {[s |-> <<"?", "a", "t", "s", "=", "3", "&", "a", "d", "v", "=">> \o c.s, adv |-> c.upper] : c \in IdCodes}
    \cup {[s |-> <<"?", "x", "a", "d", "v", "=">> \o c.s, adv |-> <<>>] : c \in IdCodes}
    \cup {[s |-> <<"?", "a", "d", "v", "=">> \o c.s \o <<"7">>, adv |-> <<>>] : c \in IdCodes}

IdTails == {<<>>, <<"&", "c", "u", "r", "r", "e", "n", "t", "P", "a", "g", "e", "=", "0">>, <<"&", "c", "u", "r", "r", "e", "n", "t", "P", "a",
                                        "g", "e", "=", "1">>}

IdInputs ==
    { [url |-> HOST \o path.s \o q.s \o (IF q.s = <<>> THEN <<>> ELSE t),
       adv |-> q.adv, digits |-> path.digits] :
      path \in IdPaths, q \in IdQueries, t \in IdTails }

InitId ==
    /\ PipeIdle
    /\ input \in IdInputs
    /\ output = <<>>
    /\ fpc = "in"

ApplyMakeId ==
    /\ fpc = "in"
    /\ output' = <<make_id(input.url)>>
    /\ fpc' = "make_id"
    /\ UNCHANGED <<input, pipeVars>>

NextId == ApplyMakeId

SpecId == InitId /\ [][NextId]_vars

(***************************************************************************)
(* fetch_list_page on its own: a page number, the answer to the request    *)
(* for the list page and the answer of the data route are drawn.           *)
(***************************************************************************)
ListTexts == {<<"<", "h", "t", "m", "l", ">">>, <<"A", "t", "t", "e", "n", "t", "i", "o", "n", " ", "R", "e",
                            "q", "u", "i", "r", "e", "d", "!", " ", "|", " ", "C", "l",
                            "o", "u", "d", "f", "l", "a", "r", "e">>}

ListNextData ==
    { [nd |-> "absent", bid |-> NONE], [nd |-> "malformed", bid |-> NONE],
      [nd |-> "empty_dict", bid |-> NONE], [nd |-> "list", bid |-> NONE],
      [nd |-> "dict", bid |-> NONE], [nd |-> "dict", bid |-> <<" ", " ">>],
      [nd |-> "dict", bid |-> <<" ", "b", "1", " ">>] }

ListHrefs == {<<>>, <<HREF_X>>, <<HREF_X, HREF_Y, HREF_X>>}

ListAdvs == {<<>>, <<<<"m", "6", "5", "4", "3", "2", "1">>, <<"M", "6", "5", "4", "3", "2", "1">>>>}

ListResponses ==
    {RaiseResponse, StatusResponse(503)}
    \cup {HtmlResponse(ListHtml(text, n.nd, n.bid, hrefs, advs)) :
            text \in ListTexts, n \in ListNextData, hrefs \in ListHrefs, advs \in ListAdvs}

DataResponses ==
    { RaiseResponse,
      JsonResponse([advs |-> <<>>, nodes |-> <<>>]),
      JsonResponse([advs |-> <<>>, nodes |-> <<[url |-> <<"/", "d", "u", "y", "u", "r",
                                                          "u", "/", "7">>, title |-> NONE]>>]),
      JsonResponse([advs  |-> <<<<"M", "6", "5", "4", "3", "2", "1">>>>,
                    nodes |-> <<[url |-> HREF_Y, title |-> TITLE_A],
                                [url |-> NONE, title |-> TITLE_A],
                                [url |-> <<" ", "/", "i", "l", "a", "n", "/", "1", "2",
                                           "3", "4", "5", "6", "/", "y", " ">>, title |-> NONE]>>]) }

InitList ==
    /\ PipeIdle
    /\ input \in [pg : 0..1, r : ListResponses, jr : DataResponses]
    /\ output = <<>>
    /\ fpc = "in"

ApplyFetchListPage ==
    /\ fpc = "in"
    /\ output' = <<fetch_list_page(input.pg, input.r, input.jr)>>
    /\ fpc' = "fetch_list_page"
    /\ UNCHANGED <<input, pipeVars>>

NextList == ApplyFetchListPage

SpecList == InitList /\ [][NextList]_vars

(***************************************************************************)
(* Properties of the functions.                                            *)
(***************************************************************************)
\* the lower-case spelling of a character and of a string in the Turkish
\* alphabet: the dotted capital I is the capital of i, and I that of the
\* dotless i
LocaleLowerChar(c) ==
    IF c = "U+0130" THEN <<"i">>
    ELSE IF c = "I" THEN <<"U+0131">>
    ELSE LowerChar(c)

RECURSIVE LocaleLower(_)
LocaleLower(s) ==
    IF s = NONE \/ s = <<>> THEN s
    ELSE LocaleLowerChar(Head(s)) \o LocaleLower(Tail(s))

\* norm_text(norm_text(x)) = norm_text(x), on every input
NormIdempotent == (fpc = "norm_text" /\ Len(output) = 2) => output[2] = output[1]

\* C9: norm_text gives a result on every input, norm_text of its result is
\* that result, and a string and its lower-case spelling in the Turkish
\* alphabet (the dotted capital I for i, I for the dotless i) normalise to the
\* same string, as norm_text("IHALE" with the dotted capital) = norm_text("ihale").
C9_NormIdempotentCaseInsensitive ==
    fpc = "norm_text" =>
        /\ output[1] = norm_text(LocaleLower(input))
        /\ Len(output) = 2 => output[2] = output[1]

\* the names of the districts, as antalya_score looks for them
SubRegions == {norm_text(tok) : tok \in SeqToSet(ANTALYA_TOKENS)} \ {ANTALYA}

\* the districts a blob mentions
Mentions(blob) == {d \in SubRegions : str_in(d, norm_text(blob))}

\* C5: for a blob without "antalya", the score is 2 for each distinct district
\* it mentions, whichever spelling of the district ANTALYA_TOKENS lists; the
\* Antalya filter rejects the blob when it mentions exactly one district and
\* accepts it when it mentions two.
C5_GeoGateCountsDistricts ==
    ~str_in(ANTALYA, norm_text(input)) =>
        /\ fpc = "antalya_score" => output[1] = 2 * Cardinality(Mentions(input))
        /\ (fpc = "geo_gate" /\ Cardinality(Mentions(input)) = 1) => output[1] = FALSE
        /\ (fpc = "geo_gate" /\ Cardinality(Mentions(input)) >= 2) => output[1] = TRUE

HasNegative(blob) ==
    \E i \in 1..Len(NEGATIVE_HINTS) : str_in(NEGATIVE_HINTS[i], norm_text(blob))

HasPositive(blob) ==
    \E i \in 1..Len(POSITIVE_HINTS) : str_in(POSITIVE_HINTS[i], norm_text(blob))

\* C6: for a blob whose normalised text contains a negative keyword,
\* looks_like_kiralama is false, whatever positive keywords it contains and
\* whatever its score, and so the two gates of main() do not accept it: it is
\* neither queued nor marked seen.
C6_NegativeGateDominates ==
    (fpc \in {"looks_like_kiralama", "accepts"} /\ HasNegative(input)) => output[1] = FALSE

\* a blob with "antalya", a positive keyword and a negative one is not accepted
C6_Witness ==
    /\ fpc = "accepts"
    /\ str_in(ANTALYA, norm_text(input))
    /\ geo_gate(input)
    /\ HasPositive(input)
    /\ HasNegative(input)
    /\ output = <<FALSE>>

\* C7: the identity of a URL is its advertisement code in capitals when it has
\* one; otherwise the digits of its /ilan/<digits> segment when it has one;
\* otherwise the URL itself.  URLs that differ in the case of the code or in
\* currentPage only have the same identity.
C7_MakeIdPriority ==
    fpc = "make_id" =>
        output[1] = IF input.adv # <<>> THEN input.adv
                    ELSE IF input.digits # <<>> THEN input.digits
                    ELSE input.url

\* a URL with a code in small letters and an /ilan/<digits> segment got the
\* code in capitals
C7_Witness ==
    /\ fpc = "make_id"
    /\ input.adv # <<>>
    /\ input.digits # <<>>
    /\ ~str_in(input.adv, input.url)
    /\ output = <<input.adv>>

\* the candidates of the data route of a list page: none when the page has no
\* __NEXT_DATA__ with a buildId, or when the route fails
JsonStrategy(in) ==
    IF /\ extract_next_data(in.r.html) = "dict"
       /\ next_data_build_id(in.r.html) # NONE
       /\ in.jr.kind # "raise"
    THEN pick_candidates_from_any_json(in.jr.json, in.pg)
    ELSE <<>>

HtmlStrategy(in) == pick_candidates_from_html(in.r.html, in.pg)

PageServed(in) ==
    /\ in.r.kind # "raise"
    /\ in.r.status_code = HTTP_OK
    /\ ~detect_block_page(in.r.html.text)

\* C8: the candidates of a list page that was served are those of the first
\* strategy, in the order data route, HTML, that yields a candidate; when the
\* data route is absent, fails or yields none, the HTML extractor is applied
\* to the page, so the page has no candidate only if both yield none.
C8_StrategyFallback ==
    (fpc = "fetch_list_page" /\ PageServed(input)) =>
        /\ ~output[1].raised
        /\ output[1].cands = IF JsonStrategy(input) # <<>>
                             THEN JsonStrategy(input)
                             ELSE HtmlStrategy(input)

====
